---------------------------- MODULE Spec2Model ----------------------------
(***************************************************************************)
(* Black-Scholes-Merton notebook (Finance/python-black-scholes-merton):    *)
(* the price simulator bsm, the Monte Carlo averaging cells and the        *)
(* closed-form pricer call, as run by a Python 2.7 kernel.                 *)
(*                                                                         *)
(* Numbers.  A Python value is a record [k, v]:                            *)
(*   k = "int"    a Python int, v its value;                               *)
(*   k = "float"  a finite float, v the value in units of 1/SCALE;         *)
(*   k = "nan", "inf", "ninf"  the IEEE specials (v = 0);                  *)
(*   k = "arr"    a NumPy float array, v the sequence of its elements;     *)
(*   k = an exception name: the expression raised it (v = 0).              *)
(* Finite floats are fixed-point numbers rounded to the nearest 1/SCALE;   *)
(* exp, log, sqrt and the normal cdf are computed by series on them, so a  *)
(* float result of the model is within a few 1/SCALE of the double the     *)
(* kernel computes.  np.exp overflows to inf above 709.78 and underflows   *)
(* to 0.0 below -745.13, and so does the model's; in between, the inputs   *)
(* enumerated here keep every exponent inside (-14, 7), where the fixed    *)
(* point can tell exp from 0.                                              *)
(***************************************************************************)
EXTENDS Integers, Sequences, FiniteSets, TLC

(* ------------------------- fixed-point floats ------------------------- *)

\* float64, as fixed point: one unit is 1/SCALE = LIMB^-2.
LIMB == 1000
SCALE == 1000000

Abs(a) == IF a < 0 THEN -a ELSE a
Sgn(a) == IF a < 0 THEN -1 ELSE IF a > 0 THEN 1 ELSE 0

\* a*b/SCALE rounded to nearest, by limbs so that no product leaves 32 bits.
FMul(a, b) ==
    LET x == Abs(a)
        y == Abs(b)
        x1 == x \div LIMB
        x0 == x % LIMB
        y1 == y \div LIMB
        y0 == y % LIMB
        mid == x1 * y0 + x0 * y1
        low == x0 * y0 + (SCALE \div 2)
    IN  Sgn(a) * Sgn(b) * (x1 * y1 + (mid + low \div LIMB) \div LIMB)

\* the decimal digits of rem/d after the point, d > rem >= 0: long division.
RECURSIVE FracDigits(_, _, _, _)
FracDigits(rem, d, unit, acc) ==
    IF unit = 0
    THEN acc + (IF 2 * rem >= d THEN 1 ELSE 0)
    ELSE FracDigits((rem * 10) % d, d, unit \div 10, acc + ((rem * 10) \div d) * unit)

\* a*SCALE/b rounded to nearest, b # 0.
FDiv(a, b) ==
    LET x == Abs(a)
        y == Abs(b)
    IN  Sgn(a) * Sgn(b) * ((x \div y) * SCALE + FracDigits(x % y, y, SCALE \div 10, 0))

\* a/i rounded to nearest for a plain integer i > 0.
IDiv(a, i) == Sgn(a) * ((Abs(a) + i \div 2) \div i)

(* ----------------------- elementary functions ------------------------- *)

\* e and 1/e, ln 2 and 1/sqrt(2 pi), in units of 1/SCALE.
E_UNITS == 2718282
INV_E_UNITS == 367879
LN2_UNITS == 693147
INV_SQRT_2PI_UNITS == 398942

\* number of series terms summed (a term that rounds to 0 ends a series sooner).
TERMS == 16

\* sum of f^i/i! from term i on, for 0 <= f < SCALE.
RECURSIVE ExpSeries(_, _, _, _)
ExpSeries(f, i, term, acc) ==
    IF term = 0 \/ i > TERMS
    THEN acc
    ELSE ExpSeries(f, i + 1, IDiv(FMul(term, f), i), acc + term)

RECURSIVE FPowInt(_, _)
FPowInt(base, k) == IF k = 0 THEN SCALE ELSE FMul(base, FPowInt(base, k - 1))

\* exp on finite floats: e^k * e^f for x = k + f >= 0, the reciprocals for x < 0.
FExp(x) ==
    LET k == Abs(x) \div SCALE
        f == Abs(x) % SCALE
        ef == ExpSeries(f, 1, SCALE, 0)
    IN  IF x >= 0
        THEN FMul(FPowInt(E_UNITS, k), ef)
        ELSE FMul(FPowInt(INV_E_UNITS, k), FDiv(SCALE, ef))

\* largest integer whose square is <= x, found between lo and hi.
RECURSIVE ISqrt(_, _, _)
ISqrt(x, lo, hi) ==
    IF lo >= hi
    THEN lo
    ELSE LET mid == (lo + hi + 1) \div 2
         IN  IF mid <= x \div mid THEN ISqrt(x, mid, hi) ELSE ISqrt(x, lo, mid - 1)

RECURSIVE Newton(_, _, _)
Newton(x, g, steps) ==
    IF steps = 0 THEN g ELSE Newton(x, (g + FDiv(x, g) + 1) \div 2, steps - 1)

\* square root of a finite float x >= 0.
FSqrt(x) ==
    IF x = 0
    THEN 0
    ELSE LET g0 == ISqrt(x, 1, 46340) * LIMB IN Newton(x, g0, 3)

\* sum of y^(2j+1)/(2j+1) from the term of odd index i on (pw = y^i).
RECURSIVE AtanhSeries(_, _, _, _)
AtanhSeries(y2, i, pw, acc) ==
    IF pw = 0 \/ i > 2 * TERMS
    THEN acc
    ELSE AtanhSeries(y2, i + 2, FMul(pw, y2), acc + IDiv(pw, i))

\* natural logarithm of a finite float x > 0: x = 2^k * m with 1 <= m < 2.
RECURSIVE FLn(_)
FLn(x) ==
    IF x >= 2 * SCALE THEN LN2_UNITS + FLn(IDiv(x, 2))
    ELSE IF x < SCALE THEN FLn(2 * x) - LN2_UNITS
    ELSE LET y == FDiv(x - SCALE, x + SCALE)
         IN  2 * AtanhSeries(FMul(y, y), 1, y, 0)

\* sum of x^(2j+1)/(1*3*...*(2j+1)) from the term of odd index i on.
RECURSIVE CdfSeries(_, _, _, _)
CdfSeries(x2, i, term, acc) ==
    IF term = 0 \/ i > 2 * TERMS
    THEN acc
    ELSE CdfSeries(x2, i + 2, IDiv(FMul(term, x2), i + 2), acc + term)

\* x + 1/(x + 2/(x + 3/(...))), the continued fraction of the upper tail,
\* evaluated from its innermost level j upwards.
RECURSIVE TailFraction(_, _, _)
TailFraction(x, j, inner) ==
    IF j = 0 THEN inner ELSE TailFraction(x, j - 1, x + FDiv(j * SCALE, inner))

FPdf(x) == FMul(FExp(-IDiv(FMul(x, x), 2)), INV_SQRT_2PI_UNITS)

\* standard normal cdf of a finite float (scipy.stats.norm.cdf).
FPhi(x) ==
    LET a == Abs(x)
        upper == IF a <= 2 * SCALE
                 THEN (SCALE \div 2) - FMul(FPdf(a), CdfSeries(FMul(a, a), 1, a, 0))
                 ELSE IF a >= 6 * SCALE THEN 0
                 ELSE FDiv(FPdf(a), TailFraction(a, TERMS, a))
    IN  IF x >= 0 THEN SCALE - upper ELSE upper

(* --------------------------- Python values ---------------------------- *)

PyInt(i) == [k |-> "int", v |-> i]
PyFloat(u) == [k |-> "float", v |-> u]
NaN == [k |-> "nan", v |-> 0]
PosInf == [k |-> "inf", v |-> 0]
NegInf == [k |-> "ninf", v |-> 0]
NpArray(xs) == [k |-> "arr", v |-> xs]
Raise(e) == [k |-> e, v |-> 0]

Exceptions == {"ZeroDivisionError", "ValueError", "NameError", "TypeError"}
IsErr(x) == x.k \in Exceptions
IsArr(x) == x.k = "arr"
IsFinite(x) == x.k \in {"int", "float"}

\* a finite number in units of 1/SCALE.
Units(x) == IF x.k = "int" THEN x.v * SCALE ELSE x.v

\* -1, 0 or 1 for a number that is not nan.
SignOf(x) ==
    CASE x.k = "inf" -> 1
      [] x.k = "ninf" -> -1
      [] OTHER -> Sgn(x.v)

Infinity(sign) == IF sign > 0 THEN PosInf ELSE NegInf

\* float(x) of a Python number.
ToFloat(x) == IF x.k = "int" THEN PyFloat(x.v * SCALE) ELSE x

\* unary minus.
NegS(x) ==
    CASE x.k = "int" -> PyInt(-x.v)
      [] x.k = "float" -> PyFloat(-x.v)
      [] x.k = "inf" -> NegInf
      [] x.k = "ninf" -> PosInf
      [] OTHER -> x

\* a + b on two scalars.
AddS(a, b) ==
    CASE a.k = "int" /\ b.k = "int" -> PyInt(a.v + b.v)
      [] IsFinite(a) /\ IsFinite(b) -> PyFloat(Units(a) + Units(b))
      [] a.k = "nan" \/ b.k = "nan" -> NaN
      [] IsFinite(a) -> b
      [] IsFinite(b) -> a
      [] OTHER -> IF a.k = b.k THEN a ELSE NaN

\* a * b on two scalars.
MulS(a, b) ==
    CASE a.k = "int" /\ b.k = "int" -> PyInt(a.v * b.v)
      [] IsFinite(a) /\ IsFinite(b) -> PyFloat(FMul(Units(a), Units(b)))
      [] a.k = "nan" \/ b.k = "nan" -> NaN
      [] OTHER -> IF SignOf(a) * SignOf(b) = 0
                  THEN NaN
                  ELSE Infinity(SignOf(a) * SignOf(b))

\* floor(a / b) for integers, b # 0.
FloorDiv(a, b) == IF b > 0 THEN a \div b ELSE (-a) \div (-b)

\* a / b on two Python scalars under Python 2: int / int floors, and any
\* division by a zero raises.
DivS(a, b) ==
    CASE IsFinite(b) /\ b.v = 0 -> Raise("ZeroDivisionError")
      [] a.k = "int" /\ b.k = "int" -> PyInt(FloorDiv(a.v, b.v))
      [] IsFinite(a) /\ IsFinite(b) -> PyFloat(FDiv(Units(a), Units(b)))
      [] a.k = "nan" \/ b.k = "nan" -> NaN
      [] IsFinite(a) -> PyFloat(0)
      [] IsFinite(b) -> Infinity(SignOf(a) * SignOf(b))
      [] OTHER -> NaN

\* a ** b on two Python scalars, for the exponents the notebook writes
\* (2, and 0.5 as 1.0/2) and for the 0 that 1/2 is under Python 2.
PowS(a, b) ==
    CASE IsFinite(b) /\ b.v = 0 -> IF a.k = "int" /\ b.k = "int" THEN PyInt(1) ELSE PyFloat(SCALE)
      [] b = PyInt(2) -> MulS(a, a)
      [] b = PyFloat(SCALE \div 2) ->
            CASE a.k = "nan" -> NaN
              [] a.k \in {"inf", "ninf"} -> PosInf
              [] a.v < 0 -> Raise("ValueError")
              [] OTHER -> PyFloat(FSqrt(Units(a)))

\* the float64 range of exp: np.exp(x) is inf for x above 709.782712 and
\* 0.0 for x below -745.133219.
EXP_OVERFLOW_UNITS == 709782712
EXP_UNDERFLOW_UNITS == 745133219

\* exp, log and the normal cdf of one number, as NumPy and SciPy give them:
\* warnings, never exceptions.
ExpS(x) ==
    CASE x.k = "nan" -> NaN
      [] x.k = "inf" -> PosInf
      [] x.k = "ninf" -> PyFloat(0)
      [] Units(x) > EXP_OVERFLOW_UNITS -> PosInf
      [] Units(x) < -EXP_UNDERFLOW_UNITS -> PyFloat(0)
      [] OTHER -> PyFloat(FExp(Units(x)))

LogS(x) ==
    CASE x.k \in {"nan", "ninf"} -> NaN
      [] x.k = "inf" -> PosInf
      [] x.v < 0 -> NaN
      [] x.v = 0 -> NegInf
      [] OTHER -> PyFloat(FLn(Units(x)))

CdfS(x) ==
    CASE x.k = "nan" -> NaN
      [] x.k = "inf" -> PyFloat(SCALE)
      [] x.k = "ninf" -> PyFloat(0)
      [] OTHER -> PyFloat(FPhi(Units(x)))

\* a < b on two numbers; False when either is nan.
LessS(a, b) ==
    CASE a.k = "nan" \/ b.k = "nan" -> FALSE
      [] IsFinite(a) /\ IsFinite(b) -> Units(a) < Units(b)
      [] a.k = b.k -> FALSE
      [] OTHER -> a.k = "ninf" \/ b.k = "inf"

\* np.maximum on two numbers: the larger, nan if either is nan.
MaximumS(a, b) ==
    CASE a.k = "nan" \/ b.k = "nan" -> NaN
      [] LessS(a, b) -> ToFloat(b)
      [] OTHER -> ToFloat(a)

(* ------------------- broadcasting and exceptions ---------------------- *)

\* f applied to every element of the array, the result an array of floats.
MapArr(f(_), a) == NpArray([i \in DOMAIN a.v |-> ToFloat(f(a.v[i]))])

\* a unary NumPy function: elementwise on an array; an exception raised
\* while the argument was evaluated is what the expression raises.
Lift1(f(_), x) ==
    IF IsErr(x) THEN x
    ELSE IF IsArr(x) THEN MapArr(f, x)
    ELSE f(x)

\* a binary operator: the left operand is evaluated first, so its exception
\* wins; an array operand broadcasts the scalar one.
Lift2(f(_, _), a, b) ==
    IF IsErr(a) THEN a
    ELSE IF IsErr(b) THEN b
    ELSE IF IsArr(a) /\ IsArr(b)
         THEN IF Len(a.v) = Len(b.v)
              THEN NpArray([i \in DOMAIN a.v |-> ToFloat(f(a.v[i], b.v[i]))])
              ELSE Raise("ValueError")
    ELSE IF IsArr(a) THEN NpArray([i \in DOMAIN a.v |-> ToFloat(f(a.v[i], b))])
    ELSE IF IsArr(b) THEN NpArray([i \in DOMAIN b.v |-> ToFloat(f(a, b.v[i]))])
    ELSE f(a, b)

Neg(x) == Lift1(NegS, x)
Add(a, b) == Lift2(AddS, a, b)
SubS(a, b) == AddS(a, NegS(b))
Sub(a, b) == Lift2(SubS, a, b)
Mul(a, b) == Lift2(MulS, a, b)
Div(a, b) == Lift2(DivS, a, b)
Pow(a, b) == Lift2(PowS, a, b)
NpExp(x) == Lift1(ExpS, x)
NpLog(x) == Lift1(LogS, x)
NormCdf(x) == Lift1(CdfS, x)
NpMaximum(a, b) == Lift2(MaximumS, a, b)
Float(x) == Lift1(ToFloat, x)

\* the builtin sum: 0 + x[1] + x[2] + ..., left to right.
RECURSIVE SumFrom(_, _, _)
SumFrom(xs, i, acc) ==
    IF i > Len(xs) THEN acc ELSE SumFrom(xs, i + 1, AddS(acc, xs[i]))

Sum(x) == IF IsErr(x) THEN x ELSE SumFrom(x.v, 1, PyInt(0))

(* ------------------------ the notebook's functions -------------------- *)

\* the literals 1.0/2 and 3.0/12.
Half == Div(PyFloat(SCALE), PyInt(2))
Quarter == Div(PyFloat(3 * SCALE), PyInt(12))

\* bsm with the drift term written 1/2*sigma**2: under Python 2 the int
\* division 1/2 is 0 and the volatility drops out of the drift.
bsm_intdiv(s_0, r, sigma, t, z) ==
    Mul(s_0,
        NpExp(Add(Mul(Sub(r, Mul(Div(PyInt(1), PyInt(2)), Pow(sigma, PyInt(2)))), t),
                  Mul(Mul(sigma, z), Pow(t, Half)))))

\* a scalar-only bsm, written with math.exp: an array of draws raises
\* TypeError (only length-1 arrays can be converted to Python scalars).
bsm_math(s_0, r, sigma, t, z) ==
    IF IsArr(z) /\ Len(z.v) # 1
    THEN Raise("TypeError")
    ELSE Mul(s_0,
             NpExp(Add(Mul(Sub(r, Mul(Half, Pow(sigma, PyInt(2)))), t),
                       Mul(Mul(sigma, z), Pow(t, Half)))))

\* def bsm(s_0, r, sigma, t, z), first cell:
\*   return s_0*np.exp((r-1.0/2*sigma**2)*t+sigma*z*t**(1.0/2))
bsm_first(s_0, r, sigma, t, z) ==
    Mul(s_0,
        NpExp(Add(Mul(Sub(r, Mul(Half, Pow(sigma, PyInt(2)))), t),
                  Mul(Mul(sigma, z), Pow(t, Half)))))

\* the running sums z[1], z[1]+z[2], ... of an array of draws; a single draw
\* as it is.
RECURSIVE RunningSums(_, _, _)
RunningSums(xs, i, acc) ==
    IF i > Len(xs)
    THEN <<>>
    ELSE <<AddS(acc, xs[i])>> \o RunningSums(xs, i + 1, AddS(acc, xs[i]))

CumSum(z) == IF IsArr(z) THEN NpArray(RunningSums(z.v, 1, PyFloat(0))) ELSE z

\* bsm simulating a path: each price is driven by np.cumsum(z), the draws
\* before it included.
bsm_path(s_0, r, sigma, t, z) ==
    Mul(s_0,
        NpExp(Add(Mul(Sub(r, Mul(Half, Pow(sigma, PyInt(2)))), t),
                  Mul(Mul(sigma, CumSum(z)), Pow(t, Half)))))

\* bsm by one Euler step of the price: s_0*(1 + r*t + sigma*z*sqrt(t)).
bsm_euler(s_0, r, sigma, t, z) ==
    Mul(s_0, Add(PyInt(1), Add(Mul(r, t), Mul(Mul(sigma, z), Pow(t, Half)))))

\* def bsm(s_0, r, sigma, t, z), second ("vector-based") cell, same text.
bsm(s_0, r, sigma, t, z) ==
    Mul(s_0,
        NpExp(Add(Mul(Sub(r, Mul(Half, Pow(sigma, PyInt(2)))), t),
                  Mul(Mul(sigma, z), Pow(t, Half)))))

\* d1 without its division by sigma*sqrt(t).
call_d1_unscaled(s, r, sigma, t, k) ==
    Add(NpLog(Div(Float(s), k)),
        Mul(Add(r, Div(Pow(sigma, PyInt(2)), PyInt(2))), t))

\* d1 = 1/(sigma*t**(0.5))*(np.log(float(s)/k) + (r+sigma**2/2)*t)
call_d1(s, r, sigma, t, k) ==
    Mul(Div(PyInt(1), Mul(sigma, Pow(t, PyFloat(SCALE \div 2)))),
        Add(NpLog(Div(Float(s), k)),
            Mul(Add(r, Div(Pow(sigma, PyInt(2)), PyInt(2))), t)))

\* d2 with the sign slipped: d1 + sigma*sqrt(t).
call_d2_plus(d1, sigma, t) == Add(d1, Mul(sigma, Pow(t, PyFloat(SCALE \div 2))))

\* d2 = d1-sigma*t**(0.5)
call_d2(d1, sigma, t) == Sub(d1, Mul(sigma, Pow(t, PyFloat(SCALE \div 2))))

\* def call(s, r, sigma, t, k):
\*   return norm.cdf(d1)*s-norm.cdf(d2)*k*np.exp(-r*t)
call(s, r, sigma, t, k) ==
    LET d1 == call_d1(s, r, sigma, t, k)
        d2 == call_d2(d1, sigma, t)
    IN  IF IsErr(d1) THEN d1
        ELSE IF IsErr(d2) THEN d2
        ELSE Sub(Mul(NormCdf(d1), s),
                 Mul(Mul(NormCdf(d2), k), NpExp(Mul(Neg(r), t))))

\* the payoff without its floor: stockPriceAtExpiry - strikePrice.
OptionValues_raw(stockPrices, strike) == Lift2(SubS, Float(stockPrices), strike)

\* optionValuesAtExpiry = np.maximum(stockPriceAtExpiry - strikePrice, 0)
OptionValues(stockPrices, strike) == NpMaximum(Sub(stockPrices, strike), PyInt(0))

\* the mean as np.mean gives it: nan, not an exception, for no values.
Average_mean(values, n) ==
    IF IsErr(values) THEN values
    ELSE IF Len(values.v) = 0 THEN NaN
    ELSE Div(Sum(values), n)

\* sum(values)/n
Average(values, n) == Div(Sum(values), n)

\* the average compounded instead of discounted: math.exp(r*t).
PresentValue_compounded(average, r, t) == Mul(average, NpExp(Mul(r, t)))

\* presentOptionValue = averageForwardOptionValue * math.exp(-r*t)
PresentValue(average, r, t) == Mul(average, NpExp(Mul(Neg(r), t)))

(* --------------------------- notebook state --------------------------- *)

VARIABLES
    bsmDef,     \* which def of bsm the name is bound to: 0 none, 1 first, 2 second
    callDef,    \* whether call is defined
    plotDef,    \* whether plot_histogram is defined
    n, r, t,    \* the globals the cells assign
    prices,
    stockPriceAtExpiry,
    strikePrice,
    optionValuesAtExpiry,
    averageForwardOptionValue,
    presentOptionValue,
    cell,       \* the cell or call that ran last
    out,        \* what it printed or displayed, or the exception it raised
    lastCall,   \* the latest call of bsm or call: function, arguments, result
    probe,      \* the latest call a caller made on its own, outside the cells
    again       \* the result of making the probe call once more, later

globals == <<n, r, t, prices, stockPriceAtExpiry, strikePrice,
             optionValuesAtExpiry, averageForwardOptionValue, presentOptionValue>>
defs == <<bsmDef, callDef, plotDef>>
vars == <<defs, globals, cell, out, lastCall, probe, again>>

\* a name that is not bound yet, and the absence of output.
Unbound == [k |-> "unbound", v |-> 0]
Figure == [k |-> "figure", v |-> 0]
NoCall == [fn |-> "none", args |-> <<>>, res |-> Unbound]

\* largest sample size simulated (the notebook's n is 10 to 1000000).
MaxN == 2

\* the standard normal draws np.random.standard_normal may deliver.
Draws == {PyFloat(-SCALE), PyFloat(SCALE)}

\* np.random.standard_normal(size): every array of that many draws.
StandardNormal(size) == {NpArray(xs) : xs \in [1..size -> Draws]}

\* every sample of at most MaxN draws.
Samples == UNION {StandardNormal(size) : size \in 0..MaxN}

\* a bsm whose body reads the global r where it should read its parameter.
CallBsmName_global(def, s_0, rr, sigma, tt, z) ==
    CASE def = 0 -> Raise("NameError")
      [] r = Unbound -> Raise("NameError")
      [] def = 1 -> bsm_first(s_0, r, sigma, tt, z)
      [] OTHER -> bsm(s_0, r, sigma, tt, z)

\* the name bsm, looked up and called.
CallBsmName(def, s_0, rr, sigma, tt, z) ==
    CASE def = 0 -> Raise("NameError")
      [] def = 1 -> bsm_first(s_0, rr, sigma, tt, z)
      [] OTHER -> bsm(s_0, rr, sigma, tt, z)

BsmCall(def, s_0, rr, sigma, tt, z) ==
    [fn |-> "bsm", args |-> <<s_0, rr, sigma, tt, z>>,
     res |-> CallBsmName(def, s_0, rr, sigma, tt, z)]

\* the name call, looked up and called.
CallCallName(def, s, rr, sigma, tt, k) ==
    IF def THEN call(s, rr, sigma, tt, k) ELSE Raise("NameError")

CallCall(def, s, rr, sigma, tt, k) ==
    [fn |-> "call", args |-> <<s, rr, sigma, tt, k>>,
     res |-> CallCallName(def, s, rr, sigma, tt, k)]

Init ==
    /\ bsmDef = 0
    /\ callDef = FALSE
    /\ plotDef = FALSE
    /\ n = Unbound
    /\ r = Unbound
    /\ t = Unbound
    /\ prices = Unbound
    /\ stockPriceAtExpiry = Unbound
    /\ strikePrice = Unbound
    /\ optionValuesAtExpiry = Unbound
    /\ averageForwardOptionValue = Unbound
    /\ presentOptionValue = Unbound
    /\ cell = "none"
    /\ out = Unbound
    /\ lastCall = NoCall
    /\ probe = NoCall
    /\ again = Unbound

(* ------------------------------ the cells ----------------------------- *)

\* def bsm ...; print bsm(100, 0.03, 0.4, 3.0/12, np.random.standard_normal())
CellBsmScalar ==
    \E z \in Draws :
        \E c \in {BsmCall(1, PyInt(100), PyFloat(30000), PyFloat(400000), Quarter, z)} :
            /\ bsmDef' = 1
            /\ lastCall' = c
            /\ out' = c.res
            /\ cell' = "bsm scalar"
            /\ UNCHANGED <<probe, again>>
            /\ UNCHANGED <<callDef, plotDef, globals>>

\* def bsm ...; n = 10; print bsm(100, 0.03, 0.4, 3.0/12, np.random.standard_normal(n))
CellBsmVector ==
    \E z \in Samples :
        \E c \in {BsmCall(2, PyInt(100), PyFloat(30000), PyFloat(400000), Quarter, z)} :
            /\ bsmDef' = 2
            /\ n' = PyInt(Len(z.v))
            /\ lastCall' = c
            /\ out' = c.res
            /\ cell' = "bsm vector"
            /\ UNCHANGED <<probe, again>>
            /\ UNCHANGED <<callDef, plotDef, r, t, prices, stockPriceAtExpiry,
                           strikePrice, optionValuesAtExpiry,
                           averageForwardOptionValue, presentOptionValue>>

\* n = 100000; prices = bsm(100,0.03,0.4,3.0/12,np.random.standard_normal(n));
\* plt.hist(prices, ...)
CellHistogram ==
    \E z \in Samples :
        \E c \in {BsmCall(bsmDef, PyInt(100), PyFloat(30000), PyFloat(400000), Quarter, z)} :
            /\ n' = PyInt(Len(z.v))
            /\ lastCall' = c
            /\ prices' = IF IsErr(c.res) THEN prices ELSE c.res
            /\ out' = IF IsErr(c.res) THEN c.res ELSE Figure
            /\ cell' = "histogram"
            /\ UNCHANGED <<probe, again>>
            /\ UNCHANGED <<defs, r, t, stockPriceAtExpiry, strikePrice,
                           optionValuesAtExpiry, averageForwardOptionValue,
                           presentOptionValue>>

\* the volatility slider starting at 0.0, as the rate slider does.
SliderSigma_fromZero == {PyFloat(0), PyFloat(SCALE)}

\* the slider positions interact offers: r=(0.0, 0.2, 0.01),
\* sigma=(0.01, 1.0, 0.01), t=(0.01, 2, 0.01); the ends of each range.
SliderR == {PyFloat(0), PyFloat(200000)}
SliderSigma == {PyFloat(10000), PyFloat(SCALE)}
SliderT == {PyFloat(10000), PyFloat(2 * SCALE)}

\* plot_histogram with n and prices declared global: each call rebinds the
\* notebook's n and prices.
plot_histogram_global(rr, sigma, tt, z) ==
    \E c \in {BsmCall(bsmDef, PyInt(100), rr, sigma, tt, z)} :
        /\ lastCall' = c
        /\ n' = IF IsArr(z) THEN PyInt(Len(z.v)) ELSE PyInt(1)
        /\ prices' = IF IsErr(c.res) THEN prices ELSE c.res
        /\ out' = IF IsErr(c.res) THEN c.res ELSE Figure
        /\ UNCHANGED <<probe, again>>
        /\ UNCHANGED <<bsmDef, callDef, r, t, stockPriceAtExpiry, strikePrice,
                       optionValuesAtExpiry, averageForwardOptionValue,
                       presentOptionValue>>

\* plot_histogram(r, sigma, t): n and prices are its locals; a sample of one
\* draw stands for its sample of n = 1000000.
\*   n = 1000000; prices = bsm(100,r,sigma,t,np.random.standard_normal(n)); plt.hist(...)
plot_histogram(rr, sigma, tt, z) ==
    \E c \in {BsmCall(bsmDef, PyInt(100), rr, sigma, tt, z)} :
        /\ lastCall' = c
        /\ out' = IF IsErr(c.res) THEN c.res ELSE Figure
        /\ UNCHANGED <<probe, again>>
        /\ UNCHANGED <<bsmDef, callDef, globals>>

\* def plot_histogram ...; interact(plot_histogram, r=..., sigma=..., t=...):
\* interact draws the figure once for the sliders' starting position.
CellInteract ==
    \E rr \in SliderR, sigma \in SliderSigma, tt \in SliderT : \E z \in StandardNormal(1) :
        /\ plotDef' = TRUE
        /\ cell' = "interact"
        /\ plot_histogram(rr, sigma, tt, z)

\* a slider is moved: interact calls plot_histogram again.
SliderMoved ==
    /\ plotDef
    /\ \E rr \in SliderR, sigma \in SliderSigma, tt \in SliderT : \E z \in StandardNormal(1) :
        /\ plotDef' = plotDef
        /\ cell' = "slider"
        /\ plot_histogram(rr, sigma, tt, z)

\* the cell without its n = 1000000 line, its sample size written out: the
\* sum is divided by the n an earlier cell bound.
CellExpectedPrice_stale ==
    \E z \in Samples :
        \E c \in {BsmCall(bsmDef, PyInt(100), PyFloat(30000), PyFloat(400000), Quarter, z)} :
            /\ lastCall' = c
            /\ out' = IF n = Unbound THEN Raise("NameError") ELSE Average(c.res, n)
            /\ cell' = "expected price"
            /\ UNCHANGED <<probe, again>>
            /\ UNCHANGED <<defs, globals>>

\* n = 1000000; print sum(bsm(100, 0.03, 0.4, 3.0/12, np.random.standard_normal(n)))/n
CellExpectedPrice ==
    \E z \in Samples :
        \E c \in {BsmCall(bsmDef, PyInt(100), PyFloat(30000), PyFloat(400000), Quarter, z)} :
            /\ n' = PyInt(Len(z.v))
            /\ lastCall' = c
            /\ out' = Average(c.res, PyInt(Len(z.v)))
            /\ cell' = "expected price"
            /\ UNCHANGED <<probe, again>>
            /\ UNCHANGED <<defs, r, t, prices, stockPriceAtExpiry, strikePrice,
                           optionValuesAtExpiry, averageForwardOptionValue,
                           presentOptionValue>>

\* the strike prices tried in the option value cell (the notebook's is 105).
Strikes == {PyInt(105), PyFloat(80 * SCALE)}

\* n = 100000; r = 0.03; t = 3.0/12
\* stockPriceAtExpiry = bsm(100, r, 0.4, t, np.random.standard_normal(n))
\* strikePrice = 105
\* optionValuesAtExpiry = np.maximum(stockPriceAtExpiry - strikePrice,0)
\* averageForwardOptionValue = sum(optionValuesAtExpiry)/n
\* presentOptionValue = averageForwardOptionValue * math.exp(-r*t)
\* print presentOptionValue
\* n, r and t below are the values the cell's first line has just assigned.
\* A statement that raises ends the cell: the later names keep their values.
OptionValueCell(z, strike) ==
    \E nn \in {PyInt(Len(z.v))}, rr \in {PyFloat(30000)}, tt \in {Quarter} :
    \E c \in {BsmCall(bsmDef, PyInt(100), rr, PyFloat(400000), tt, z)} :
    \E values \in {OptionValues(c.res, strike)} :
    \E average \in {Average(values, nn)} :
    \E present \in {PresentValue(average, rr, tt)} :
        /\ n' = nn
        /\ r' = rr
        /\ t' = tt
        /\ lastCall' = c
        /\ stockPriceAtExpiry' = IF IsErr(c.res) THEN stockPriceAtExpiry ELSE c.res
        /\ strikePrice' = IF IsErr(c.res) THEN strikePrice ELSE strike
        /\ optionValuesAtExpiry' = IF IsErr(values) THEN optionValuesAtExpiry ELSE values
        /\ averageForwardOptionValue' =
               IF IsErr(average) THEN averageForwardOptionValue ELSE average
        /\ presentOptionValue' = IF IsErr(present) THEN presentOptionValue ELSE present
        /\ out' = present
        /\ cell' = "option value"
        /\ UNCHANGED <<probe, again>>
        /\ UNCHANGED <<defs, prices>>

CellOptionValue == \E z \in Samples : \E strike \in Strikes : OptionValueCell(z, strike)

\* def call ...; print call(100, 0.03, 0.4, 3.0/12, 105)
CellCall ==
    \E c \in {CallCall(TRUE, PyInt(100), PyFloat(30000), PyFloat(400000), Quarter, PyInt(105))} :
        /\ callDef' = TRUE
        /\ lastCall' = c
        /\ out' = c.res
        /\ cell' = "call"
        /\ UNCHANGED <<probe, again>>
        /\ UNCHANGED <<bsmDef, plotDef, globals>>

\* The Monte Carlo cells of the notebook, run in any order, any number of
\* times, with any sample and strike.
Next ==
    \/ CellBsmScalar
    \/ CellBsmVector
    \/ CellExpectedPrice
    \/ CellOptionValue

Spec == Init /\ [][Next]_vars

\* The plotting cells, after either def of bsm: the histogram, the sliders
\* and the closed-form cell.
NextFigures ==
    \/ CellBsmScalar
    \/ CellBsmVector
    \/ CellHistogram
    \/ CellInteract
    \/ SliderMoved
    \/ CellCall

SpecFigures == Init /\ [][NextFigures]_vars

\* The cells around the sliders: bsm defined, the histogram drawn, interact
\* run and sliders moved.
NextSliders ==
    \/ CellBsmScalar
    \/ CellHistogram
    \/ CellInteract
    \/ SliderMoved

SpecSliders == Init /\ [][NextSliders]_vars

(* ------------------- the functions, called by any caller --------------- *)

\* the notebook's own arguments of bsm: s_0, r, sigma, t.
NotebookArgs == <<PyInt(100), PyFloat(30000), PyFloat(400000), Quarter>>

\* the notebook's own call: call(100, 0.03, 0.4, 3.0/12, 105).
NotebookCall == NotebookArgs \o <<PyInt(105)>>

\* NotebookArgs with argument i replaced by x.
With(i, x) == [NotebookArgs EXCEPT ![i] = x]

\* argument lists for bsm: the notebook's, the same with spot, volatility or
\* time to expiry zero or negative, and with an int volatility.
BsmArgs ==
    {NotebookArgs,
     With(1, PyInt(-1)), With(1, PyInt(0)),
     With(3, PyFloat(0)), With(3, PyFloat(-400000)),
     With(4, PyFloat(0)), With(4, PyFloat(-250000)),
     With(3, PyInt(1))}

\* argument lists for call: a strike of 105 with each list of BsmArgs, the
\* notebook's list with the strike zero, negative or a float, and with float
\* spot and with volatilities 1.0, 3 and 3.0.
CallArgs ==
    {a \o <<PyInt(105)>> : a \in BsmArgs}
    \cup {NotebookArgs \o <<k>> : k \in {PyInt(0), PyInt(-105), PyFloat(95 * SCALE)}}
    \cup {With(i, x) \o <<PyInt(105)>> :
            <<i, x>> \in {<<1, PyFloat(100 * SCALE)>>, <<3, PyFloat(SCALE)>>,
                          <<3, PyInt(3)>>, <<3, PyFloat(3 * SCALE)>>}}

\* the state once the cells that define bsm and call have run.
InitCalls ==
    /\ bsmDef \in {1, 2}
    /\ callDef = TRUE
    /\ plotDef = FALSE
    /\ n = Unbound
    /\ r = Unbound
    /\ t = Unbound
    /\ prices = Unbound
    /\ stockPriceAtExpiry = Unbound
    /\ strikePrice = Unbound
    /\ optionValuesAtExpiry = Unbound
    /\ averageForwardOptionValue = Unbound
    /\ presentOptionValue = Unbound
    /\ cell = "none"
    /\ out = Unbound
    /\ lastCall = NoCall
    /\ probe = NoCall
    /\ again = Unbound

\* print bsm(s_0, r, sigma, t, z) for z one draw, no draw or MaxN draws
CallBsm ==
    \E a \in BsmArgs : \E z \in Draws \cup StandardNormal(0) \cup StandardNormal(MaxN) :
        \E c \in {BsmCall(bsmDef, a[1], a[2], a[3], a[4], z)} :
            /\ lastCall' = c
            /\ out' = c.res
            /\ cell' = "bsm"
            /\ probe' = c
            /\ again' = Unbound
            /\ UNCHANGED <<defs, globals>>

\* print call(s, r, sigma, t, k)
CallCallFn ==
    \E a \in CallArgs :
        \E c \in {CallCall(callDef, a[1], a[2], a[3], a[4], a[5])} :
            /\ lastCall' = c
            /\ out' = c.res
            /\ cell' = "call"
            /\ probe' = c
            /\ again' = Unbound
            /\ UNCHANGED <<defs, globals>>

\* the function of an earlier call applied to the same arguments, now.
Invoke(c) ==
    IF c.fn = "bsm"
    THEN CallBsmName(bsmDef, c.args[1], c.args[2], c.args[3], c.args[4], c.args[5])
    ELSE CallCallName(callDef, c.args[1], c.args[2], c.args[3], c.args[4], c.args[5])

\* the caller makes its call once more, with the same arguments, whatever
\* cells have run since.
Repeat ==
    /\ probe.fn # "none"
    /\ again = Unbound
    /\ \E c \in {[probe EXCEPT !.res = Invoke(probe)]} :
        /\ again' = c.res
        /\ lastCall' = c
        /\ out' = c.res
        /\ cell' = cell
        /\ UNCHANGED <<defs, globals, probe>>

\* the option value cell as the notebook has it (strike 105), its sample the
\* one draw 1.0: it rebinds the globals n, r and t between the calls.
CellOptionValue105 == OptionValueCell(NpArray(<<PyFloat(SCALE)>>), PyInt(105))

NextCalls ==
    \/ CallBsm
    \/ CallCallFn
    \/ Repeat
    \/ CellOptionValue105

SpecCalls == InitCalls /\ [][NextCalls]_vars

(* ----------------- call, on a grid of valid parameters ---------------- *)

\* spots, volatilities, times to expiry and strikes, all > 0, as ints and
\* as floats; the rate is the notebook's 0.03.
GridSpots == {PyFloat(95 * SCALE), PyInt(100), PyInt(110)}
GridVols == {PyFloat(400000), PyFloat(980000), PyInt(1), PyFloat(SCALE)}
GridTimes == {Quarter, PyFloat(10000), PyFloat(100)}
GridStrikes == {PyFloat(95 * SCALE), PyInt(105)}

GridArgs ==
    {<<s, PyFloat(30000), sigma, tt, k>> :
        s \in GridSpots, sigma \in GridVols, tt \in GridTimes, k \in GridStrikes}

\* print call(s, r, sigma, t, k) on the grid
CallOnGrid ==
    \E a \in GridArgs :
        \E c \in {CallCall(callDef, a[1], a[2], a[3], a[4], a[5])} :
            /\ lastCall' = c
            /\ out' = c.res
            /\ cell' = "call"
            /\ probe' = c
            /\ again' = Unbound
            /\ UNCHANGED <<defs, globals>>

\* argument i of the earlier call replaced by a value at least as large.
Raised(i, values) ==
    {[probe.args EXCEPT ![i] = x] : x \in {y \in values : Units(y) >= Units(probe.args[i])}}

\* the caller calls call again with the spot alone, or the volatility
\* alone, no lower than in its earlier call.
CallRaised ==
    /\ probe.fn = "call"
    /\ lastCall = probe
    /\ \E a \in Raised(1, GridSpots) \cup Raised(3, GridVols) :
        \E c \in {CallCall(callDef, a[1], a[2], a[3], a[4], a[5])} :
            /\ lastCall' = c
            /\ out' = c.res
            /\ cell' = "call raised"
            /\ UNCHANGED <<defs, globals, probe, again>>

NextGrid ==
    \/ CallOnGrid
    \/ CallRaised

SpecGrid == InitCalls /\ [][NextGrid]_vars

(* ------------- the functions called between the cells' runs ----------- *)

\* the state once every defining cell has run, in the notebook's order: bsm
\* is bound to its second def, call and plot_histogram are defined.
InitEffects ==
    /\ bsmDef = 2
    /\ callDef = TRUE
    /\ plotDef = TRUE
    /\ n = Unbound
    /\ r = Unbound
    /\ t = Unbound
    /\ prices = Unbound
    /\ stockPriceAtExpiry = Unbound
    /\ strikePrice = Unbound
    /\ optionValuesAtExpiry = Unbound
    /\ averageForwardOptionValue = Unbound
    /\ presentOptionValue = Unbound
    /\ cell = "none"
    /\ out = Unbound
    /\ lastCall = NoCall
    /\ probe = NoCall
    /\ again = Unbound

\* print bsm(100, 0.03, 0.4, 3.0/12, z) for one draw z, or
\* print call(100, 0.03, 0.4, 3.0/12, 105): the notebook's own calls, made
\* by a caller at any time.
CallNotebook ==
    \E c \in {BsmCall(bsmDef, NotebookArgs[1], NotebookArgs[2], NotebookArgs[3],
                       NotebookArgs[4], z) : z \in Draws}
              \cup {CallCall(callDef, NotebookCall[1], NotebookCall[2],
                             NotebookCall[3], NotebookCall[4], NotebookCall[5])} :
        /\ lastCall' = c
        /\ out' = c.res
        /\ cell' = c.fn
        /\ probe' = c
        /\ again' = Unbound
        /\ UNCHANGED <<defs, globals>>

\* the histogram and option value cells bind the globals; bsm, call and
\* plot_histogram are called, and called again, in between.
NextEffects ==
    \/ CellHistogram
    \/ CellOptionValue105
    \/ CallNotebook
    \/ Repeat
    \/ SliderMoved

SpecEffects == InitEffects /\ [][NextEffects]_vars

(* ------------------- bsm at the ends of the float range ---------------- *)

\* argument lists for bsm with spot 100 and a time to expiry of 1.0: a
\* volatility of 3.0, a volatility of 40.0 (the exponent is below -745 for
\* every draw) and a rate of 800.0 (the exponent is above 709 for every
\* draw).
ExtremeArgs ==
    {<<PyInt(100), PyFloat(30000), PyFloat(3 * SCALE), PyFloat(SCALE)>>,
     <<PyInt(100), PyFloat(30000), PyFloat(40 * SCALE), PyFloat(SCALE)>>,
     <<PyInt(100), PyFloat(800 * SCALE), PyFloat(400000), PyFloat(SCALE)>>}

\* print bsm(100, r, sigma, 1.0, z) for z one draw or MaxN draws
CallBsmExtreme ==
    \E a \in ExtremeArgs : \E z \in Draws \cup StandardNormal(MaxN) :
        \E c \in {BsmCall(bsmDef, a[1], a[2], a[3], a[4], z)} :
            /\ lastCall' = c
            /\ out' = c.res
            /\ cell' = "bsm extreme"
            /\ probe' = c
            /\ again' = Unbound
            /\ UNCHANGED <<defs, globals>>

NextExtreme ==
    \/ CallBsm
    \/ CallBsmExtreme

SpecExtreme == InitCalls /\ [][NextExtreme]_vars

(* ------------------------------ the claims ---------------------------- *)

\* The formulas of the specification, on numbers in units of 1/SCALE.

\* spot * exp((rate - 0.5*vol^2)*T + vol*z*sqrt(T))
GbmPrice(spot, rate, vol, T, z) ==
    FMul(spot,
         FExp(FMul(rate - FMul(SCALE \div 2, FMul(vol, vol)), T)
              + FMul(FMul(vol, z), FSqrt(T))))

\* the price is the float GbmPrice of the arguments a and the draw z.
IsGbmPrice(price, a, z) ==
    /\ price.k = "float"
    /\ price.v = GbmPrice(Units(a[1]), Units(a[2]), Units(a[3]), Units(a[4]), Units(z))

\* bsm is called as recorded, with the def of bsm that is bound now.
BsmOf(a, z) == CallBsmName(bsmDef, a[1], a[2], a[3], a[4], z)

\* C1: bsm on a sequence of n draws returns n prices, in the order of the
\* draws, the i-th the price bsm returns for draw i alone with the same
\* parameters; when it raises, it raises what the call on each draw raises.
C1_Elementwise ==
    (lastCall.fn = "bsm" /\ IsArr(lastCall.args[5])) =>
        LET a == lastCall.args
            z == a[5]
            p == lastCall.res
        IN  IF IsErr(p)
            THEN \A i \in DOMAIN z.v : BsmOf(a, z.v[i]) = p
            ELSE /\ IsArr(p)
                 /\ Len(p.v) = Len(z.v)
                 /\ \A i \in DOMAIN z.v : p.v[i] = BsmOf(a, z.v[i])

\* a call on MaxN draws has returned prices that differ.
C1_Witness ==
    /\ lastCall.fn = "bsm"
    /\ IsArr(lastCall.args[5])
    /\ Len(lastCall.args[5].v) = MaxN
    /\ IsArr(lastCall.res)
    /\ \E i, j \in DOMAIN lastCall.res.v : lastCall.res.v[i] # lastCall.res.v[j]

\* C8: every price bsm returns is spot * exp((riskFreeRate -
\* 0.5*volatility^2)*timeToExpiry + volatility*z*sqrt(timeToExpiry)) of its
\* parameters and of the draw z it belongs to.
C8_GbmFormula ==
    (lastCall.fn = "bsm" /\ ~IsErr(lastCall.res)) =>
        LET a == lastCall.args
            z == a[5]
            p == lastCall.res
        IN  IF IsArr(z)
            THEN /\ IsArr(p)
                 /\ DOMAIN p.v = DOMAIN z.v
                 /\ \A i \in DOMAIN z.v : IsGbmPrice(p.v[i], a, z.v[i])
            ELSE IsGbmPrice(p, a, z)

\* bsm has priced the notebook's stock on the draw 1.0: above 120.
C8_Witness ==
    /\ lastCall.fn = "bsm"
    /\ lastCall.args = NotebookArgs \o <<PyFloat(SCALE)>>
    /\ lastCall.res.k = "float"
    /\ lastCall.res.v > 120 * SCALE

\* C6: a call of bsm made again with the same arguments returns what it
\* returned before, whatever the cells have bound in between.
C6_Deterministic == (probe.fn = "bsm" /\ again # Unbound) => again = probe.res

\* bsm was called before the option value cell bound r, and again after.
C6_Witness ==
    /\ probe.fn = "bsm"
    /\ again # Unbound
    /\ ~IsErr(again)
    /\ cell = "option value"
    /\ r # Unbound
    /\ lastCall.args = probe.args
    /\ ~IsArr(lastCall.args[5])

\* the payoff max(price - strike, 0), the mean of the payoffs and the mean
\* discounted by exp(-riskFreeRate*timeToExpiry), in units of 1/SCALE.
Payoff(price, strike) == IF price - strike > 0 THEN price - strike ELSE 0

RECURSIVE Total(_, _)
Total(xs, i) == IF i > Len(xs) THEN 0 ELSE xs[i] + Total(xs, i + 1)

Mean(xs) == FDiv(Total(xs, 1), Len(xs) * SCALE)

Discounted(mean, rate, T) == FMul(mean, FExp(-FMul(rate, T)))

\* the payoffs of the prices the option value cell has simulated.
Payoffs == [i \in DOMAIN stockPriceAtExpiry.v |->
               Payoff(stockPriceAtExpiry.v[i].v, Units(strikePrice))]

\* C2: when the option value cell has printed a value, the sample it
\* simulated is not empty, optionValuesAtExpiry holds max(price - strike, 0)
\* of each price, averageForwardOptionValue their arithmetic mean, and the
\* value printed is that mean times exp(-r*t).
C2_Valuation ==
    (cell = "option value" /\ ~IsErr(out)) =>
        /\ IsArr(stockPriceAtExpiry)
        /\ Len(stockPriceAtExpiry.v) > 0
        /\ optionValuesAtExpiry = NpArray([i \in DOMAIN Payoffs |-> PyFloat(Payoffs[i])])
        /\ averageForwardOptionValue = PyFloat(Mean(Payoffs))
        /\ presentOptionValue =
               PyFloat(Discounted(Mean(Payoffs), Units(r), Units(t)))
        /\ out = presentOptionValue

\* the cell has valued the option on MaxN prices, one below the strike and
\* one above it, and printed a positive value.
C2_Witness ==
    /\ cell = "option value"
    /\ out.k = "float"
    /\ out.v > 0
    /\ IsArr(stockPriceAtExpiry)
    /\ Len(stockPriceAtExpiry.v) = MaxN
    /\ \E i, j \in DOMAIN stockPriceAtExpiry.v :
           /\ stockPriceAtExpiry.v[i].v < Units(strikePrice)
           /\ stockPriceAtExpiry.v[j].v > Units(strikePrice)

\* the parameters of a call of bsm or call that the specification rules
\* out: spot, volatility or time to expiry not positive, or, for call, the
\* strike not positive.
InvalidParameters(c) ==
    \/ Units(c.args[1]) <= 0
    \/ Units(c.args[3]) <= 0
    \/ Units(c.args[4]) <= 0
    \/ (c.fn = "call" /\ Units(c.args[5]) <= 0)

\* C3: a call of bsm or call with spot <= 0, volatility <= 0 or
\* timeToExpiry <= 0, or of call with strike <= 0, raises an error and
\* returns nothing.
C3_InvalidRaises ==
    (lastCall.fn # "none" /\ InvalidParameters(lastCall)) => IsErr(lastCall.res)

\* C4: the option value cell run on a sample of zero prices (with bsm
\* defined) ends in an error, the ZeroDivisionError of sum(...)/n, and binds
\* no average and no present value.
C4_EmptySample ==
    [][(cell' = "option value" /\ n' = PyInt(0) /\ bsmDef # 0) =>
          /\ out'.k = "ZeroDivisionError"
          /\ averageForwardOptionValue' = averageForwardOptionValue
          /\ presentOptionValue' = presentOptionValue]_vars

\* the cell has failed on an empty sample after an earlier run had bound a
\* present value.
C4_Witness ==
    /\ cell = "option value"
    /\ n = PyInt(0)
    /\ IsArr(stockPriceAtExpiry)
    /\ Len(stockPriceAtExpiry.v) = 0
    /\ out.k = "ZeroDivisionError"
    /\ presentOptionValue.k = "float"

\* a real number, or an array of real numbers.
IsReal(x) ==
    \/ IsFinite(x)
    \/ (IsArr(x) /\ \A i \in DOMAIN x.v : IsFinite(x.v[i]))

\* C5: whatever its arguments, a call of bsm or call either raises an error
\* or returns a real number or a sequence of real numbers, and the option
\* value cell either raises or prints a real number: never nan or infinity.
C5_ErrorOrReal ==
    /\ lastCall.fn # "none" => (IsErr(lastCall.res) \/ IsReal(lastCall.res))
    /\ cell = "option value" => (IsErr(out) \/ IsFinite(out))

\* C7: every payoff the option value cell has computed is a real number
\* >= 0, and so is their sum divided by n, the undiscounted mean.
C7_PayoffNonNegative ==
    /\ optionValuesAtExpiry # Unbound =>
           /\ IsArr(optionValuesAtExpiry)
           /\ \A i \in DOMAIN optionValuesAtExpiry.v :
                  /\ optionValuesAtExpiry.v[i].k = "float"
                  /\ optionValuesAtExpiry.v[i].v >= 0
    /\ averageForwardOptionValue # Unbound =>
           /\ averageForwardOptionValue.k = "float"
           /\ averageForwardOptionValue.v >= 0

\* a simulated price is below the strike, its payoff is 0, and the mean of
\* the payoffs is positive.
C7_Witness ==
    /\ cell = "option value"
    /\ ~IsErr(out)
    /\ averageForwardOptionValue.k = "float"
    /\ averageForwardOptionValue.v > 0
    /\ \E i \in DOMAIN stockPriceAtExpiry.v :
           /\ stockPriceAtExpiry.v[i].v < Units(strikePrice)
           /\ optionValuesAtExpiry.v[i] = PyFloat(0)

\* d1 = [ln(spot/strike) + (rate + vol^2/2)*T] / (vol*sqrt(T))
D1(spot, rate, vol, T, strike) ==
    FDiv(FLn(FDiv(spot, strike)) + FMul(rate + IDiv(FMul(vol, vol), 2), T),
         FMul(vol, FSqrt(T)))

\* d2 = d1 - vol*sqrt(T)
D2(d1, vol, T) == d1 - FMul(vol, FSqrt(T))

\* Phi(d1)*spot - Phi(d2)*strike*exp(-rate*T)
CallPrice(spot, rate, vol, T, strike) ==
    LET d1 == D1(spot, rate, vol, T, strike)
        d2 == D2(d1, vol, T)
    IN  FMul(FPhi(d1), spot) - FMul(FMul(FPhi(d2), strike), FExp(-FMul(rate, T)))

\* the price is the float CallPrice of the arguments a.
IsCallPrice(price, a) ==
    /\ price.k = "float"
    /\ price.v = CallPrice(Units(a[1]), Units(a[2]), Units(a[3]),
                           Units(a[4]), Units(a[5]))

\* C9: for spot, volatility, timeToExpiry and strike all > 0, call returns
\* Phi(d1)*spot - Phi(d2)*strike*exp(-riskFreeRate*timeToExpiry) with
\* d1 = [ln(spot/strike) + (riskFreeRate + volatility^2/2)*timeToExpiry] /
\* (volatility*sqrt(timeToExpiry)) and d2 = d1 - volatility*sqrt(timeToExpiry).
C9_ClosedForm ==
    (lastCall.fn = "call" /\ ~InvalidParameters(lastCall)) =>
        IsCallPrice(lastCall.res, lastCall.args)

\* C11: call(100, 0.03, 0.4, 0.25, 105) returns a float within 1e-3 of
\* 6.1979.
C11_ReferenceValue ==
    (lastCall.fn = "call" /\ lastCall.args = NotebookCall) =>
        /\ lastCall.res.k = "float"
        /\ Abs(lastCall.res.v - 6197900) <= SCALE \div 1000

\* call has priced the notebook's option and returned a float.
C11_Witness ==
    /\ lastCall.fn = "call"
    /\ lastCall.args = NotebookCall
    /\ lastCall.res.k = "float"
    /\ cell = "call"

\* the rounding error of a price of the model, 2e-4: the cdf is rounded to
\* 1/SCALE and multiplied by a spot or strike of about 100.
Rounding == SCALE \div 5000

\* C12: with valid parameters, a call of call with the spot alone raised, or
\* the volatility alone raised, returns no less (up to rounding) than the
\* call before it.
C12_Monotone ==
    (cell = "call raised" /\ probe.res.k = "float") =>
        /\ lastCall.res.k = "float"
        /\ lastCall.res.v + Rounding >= probe.res.v

\* how far a call price can be from max(spot - strike, 0): the time value,
\* at most vol*spot*sqrt(T), and the discount of the strike, at most
\* strike*rate*T; both tend to 0 with T.
TimeValueBound(spot, rate, vol, T, strike) ==
    FMul(FMul(vol, spot), FSqrt(T)) + FMul(FMul(strike, rate), T)

\* C13: on the grid, whose times to expiry go down from 0.25 to 0.0001, the
\* value call returns is within vol*spot*sqrt(t) + strike*r*t (and rounding)
\* of the intrinsic value max(spot - strike, 0): it tends to the intrinsic
\* value as t tends to 0.
C13_ShortExpiry ==
    (lastCall.fn = "call" /\ lastCall.args \in GridArgs) =>
        LET a == lastCall.args
        IN  /\ lastCall.res.k = "float"
            /\ Abs(lastCall.res.v - Payoff(Units(a[1]), Units(a[5])))
                   <= TimeValueBound(Units(a[1]), Units(a[2]), Units(a[3]),
                                     Units(a[4]), Units(a[5])) + Rounding

\* call has priced an option in the money by 5 with 0.0001 to expiry, within
\* 1 of its intrinsic value.
C13_Witness ==
    /\ lastCall.fn = "call"
    /\ lastCall.args[1] = PyInt(110)
    /\ lastCall.args[5] = PyInt(105)
    /\ lastCall.args[4] = PyFloat(100)
    /\ lastCall.res.k = "float"
    /\ Abs(lastCall.res.v - 5 * SCALE) < SCALE

\* a step that is a call of bsm, call or plot_histogram and nothing else:
\* a caller's call, the same call made again, or a slider moved.
IsCallStep ==
    \/ probe' # probe
    \/ (again = Unbound /\ again' # Unbound)
    \/ cell' = "slider"

\* C15: a call of bsm, call or plot_histogram rebinds none of the notebook's
\* globals, and a call of bsm or call made again with the same arguments
\* returns what it returned before, whatever the cells have bound since.
C15_NoSideEffects ==
    /\ [][IsCallStep => globals' = globals]_vars
    /\ [](again # Unbound => again = probe.res)

\* with n, prices, r and t bound by the cells, call was called before the
\* option value cell ran and again after it, and then a slider was moved.
C15_Witness ==
    /\ cell = "slider"
    /\ IsArr(prices)
    /\ n # Unbound
    /\ r # Unbound
    /\ presentOptionValue.k = "float"
    /\ probe.fn = "call"
    /\ again.k = "float"

\* C16: every call of bsm that interact makes for plot_histogram, when the
\* cell runs and whenever a slider is moved, has spot > 0, volatility > 0
\* and timeToExpiry > 0.
C16_SlidersValid ==
    cell \in {"interact", "slider"} =>
        /\ lastCall.fn = "bsm"
        /\ Units(lastCall.args[1]) > 0
        /\ Units(lastCall.args[3]) > 0
        /\ Units(lastCall.args[4]) > 0

\* a slider was moved to the lowest volatility and the lowest time to expiry
\* on offer, 0.01 and 0.01, and plot_histogram drew its figure.
C16_Witness ==
    /\ cell = "slider"
    /\ lastCall.args[3] = PyFloat(10000)
    /\ lastCall.args[4] = PyFloat(10000)
    /\ IsArr(lastCall.res)
    /\ out = Figure

\* the arguments a of call with the volatility converted to float.
FloatSigma(a) == [a EXCEPT ![3] = ToFloat(a[3])]

\* C17: call with an int-typed volatility returns the d1 and the price it
\* returns for the equal float volatility.
C17_IntSigma ==
    (lastCall.fn = "call" /\ lastCall.args[3].k = "int") =>
        LET a == lastCall.args
            b == FloatSigma(a)
        IN  /\ call_d1(a[1], a[2], a[3], a[4], a[5])
                   = call_d1(b[1], b[2], b[3], b[4], b[5])
            /\ lastCall.res = CallCallName(callDef, b[1], b[2], b[3], b[4], b[5])

\* the elements of an array of floats, in units of 1/SCALE.
UnitsOf(x) == [i \in DOMAIN x.v |-> x.v[i].v]

\* C18: after either averaging cell, n is the number of draws the cell
\* simulated, and the average it computed is the sum of the sample divided
\* by the sample's own length: the mean of the prices for the expected
\* price cell, of the payoffs for the option value cell.
C18_Divisor ==
    /\ cell \in {"expected price", "option value"} =>
           /\ IsArr(lastCall.args[5])
           /\ n = PyInt(Len(lastCall.args[5].v))
    /\ (cell = "expected price" /\ IsArr(lastCall.res) /\ Len(lastCall.res.v) > 0) =>
           out = PyFloat(Mean(UnitsOf(lastCall.res)))
    /\ (cell = "option value" /\ ~IsErr(out)) =>
           /\ Len(optionValuesAtExpiry.v) = n.v
           /\ averageForwardOptionValue = PyFloat(Mean(UnitsOf(optionValuesAtExpiry)))

\* the expected price cell has averaged one price after the option value
\* cell had run with n = MaxN.
C18_Witness ==
    /\ cell = "expected price"
    /\ n = PyInt(1)
    /\ out.k = "float"
    /\ IsArr(optionValuesAtExpiry)
    /\ Len(optionValuesAtExpiry.v) = MaxN
    /\ presentOptionValue.k = "float"

Exponent(a, z) ==
    FMul(Units(a[2]) - FMul(SCALE \div 2, FMul(Units(a[3]), Units(a[3]))), Units(a[4]))
    + FMul(FMul(Units(a[3]), Units(z)), FSqrt(Units(a[4])))

\* the draws of a call and the prices it returned, as sequences.
DrawsOf(c) == IF IsArr(c.args[5]) THEN c.args[5].v ELSE <<c.args[5]>>
PricesOf(c) == IF IsArr(c.res) THEN c.res.v ELSE <<c.res>>

\* the payoff max(price - 105, 0) of a price, as the option value cell
\* computes it.
PayoffOf(price) == OptionValues(price, PyInt(105))

\* bsm was called with spot > 0, volatility >= 0 and timeToExpiry >= 0, and
\* returned.
PositiveSpotCall ==
    /\ lastCall.fn = "bsm"
    /\ Units(lastCall.args[1]) > 0
    /\ Units(lastCall.args[3]) >= 0
    /\ Units(lastCall.args[4]) >= 0
    /\ ~IsErr(lastCall.res)

=============================================================================
